---- MODULE Spec2Model ----
(***************************************************************************)
(* Model of the completion orchestration engine of multi-llm-ts:           *)
(*   - LlmEngine.generate: the stream orchestration loop (engine),         *)
(*   - nativeChunkToLlmChunk of the Ollama provider: the chunk normalizer, *)
(*   - LlmEngine.callTool and processToolExecutionResult.                  *)
(* The async generators are modelled by their suspension points: an action *)
(* runs the code from one suspension point (an await on the transport, on  *)
(* the validation callback, on a plugin, or a yield to the consumer of     *)
(* generate) to the next one.  The abort signal is set by the environment  *)
(* and may become set at any suspension point.                             *)
(***************************************************************************)
EXTENDS Integers, Sequences, FiniteSets, TLC

\* Bounds of the model: native chunks delivered over one generation (in the
\* stream-level and in the tool-level specification), and status updates
\* delivered by one progressive plugin execution.
MaxChunks == 3
MaxToolChunks == 1
MaxUpdates == 1

\* The attachments of the message buildPayload is applied to.
MaxAtts == 2

\* Native chunks delivered over one generation that is left to run to its
\* end.
MaxRunChunks == 2

VARIABLES
  plugins,       \* LlmEngine.plugins: the registry, in registration order
  hasValidator,  \* opts.toolExecutionValidation is supplied
  usageOpt,      \* opts.usage
  aborted,       \* opts.abortSignal.aborted
  reason,        \* opts.abortSignal.reason
  pc,            \* the suspension point generate is at
  npc,           \* where the normalizer resumes after a forwarded chunk
  streams,       \* the native streams started so far (LlmStream objects)
  cur,           \* generate: currentStream (index into streams)
  nxt,           \* generate: nextStream (index into streams, 0 is null)
  thread,        \* context.thread
  toolCalls,     \* context.toolCalls
  thinking,      \* context.thinking
  usage,         \* context.usage
  chunk,         \* the native chunk being normalized
  ti,            \* index of the tool call of chunk being handled
  lastUpdate,    \* nativeChunkToLlmChunk: lastUpdate
  validation,    \* callTool: validation
  nupd,          \* updates received from executeWithUpdates so far
  pend,          \* chunks the normalizer still yields for a text chunk
  out,           \* the chunks forwarded to the caller, in order, each with
                 \* the stream and native chunk it derives from, its tool
                 \* call, the abort signal when it was forwarded and the
                 \* done flag the normalizer gave it
  err,           \* the error generate raised to the caller
  recv,          \* log of the native chunks generate received
  obs,           \* Len(out) when generate observed cancellation, else -1
  calls,         \* log of the tool calls recorded: id, name, native chunk,
                 \* validation decision, whether and where it was folded
                 \* into the thread
  mode,          \* the entry point that was called: generate or chat
  pev,           \* what the plugin did during the current callTool, in order
  lastOp,        \* the last operation on the plugin registry
  processed,     \* an application of processToolExecutionResult
  toolChoice,    \* context.opts.toolChoice
  built          \* an application of buildPayload to one message

vars == <<plugins, hasValidator, usageOpt, aborted, reason, pc, npc, streams,
          cur, nxt, thread, toolCalls, thinking, usage, chunk, ti, lastUpdate,
          validation, nupd, pend, out, err, recv, obs, calls, mode, pev,
          lastOp, processed, toolChoice, built>>

----------------------------------------------------------------------------
\* Values

Reasons == {"user"}
Decisions == {"allow", "deny", "abort"}

\* What a plugin's execute resolves to: a result object ("hits"), nothing
\* (undefined: "absent"), or a value that is there but falsy in
\* `lastUpdate.result || ...` (0, false, the empty string: "zero").
ExecResults == {"hits", "absent", "zero"}

\* JavaScript's falsiness of a result.
Falsy(r) == r \in {"absent", "zero"}

\* What a plugin's execute rejects with: Error('Operation cancelled') or
\* any other error.
ExecErrors == {"Operation cancelled", "plugin failure"}

NoError == [type |-> "none", name |-> "", params |-> "", reason |-> "none"]

NoUpdate == [type |-> "none", result |-> "absent", canceled |-> FALSE,
             validation |-> "none"]

ResultUpdate(r, c, v) ==
  [type |-> "result", result |-> r, canceled |-> c, validation |-> v]

StatusUpdate == [type |-> "status", result |-> "absent", canceled |-> FALSE,
                 validation |-> "none"]

\* What a plugin did: it returned or threw (single-shot), delivered a status
\* or a result update, or ended its updates; sig is the abort signal then.
PluginEvent(k, v, sig) == [kind |-> k, val |-> v, sig |-> sig]

\* The engine's plugins of the test setup: a single-shot plugin, a plugin
\* with executeWithUpdates, and a multi-tool plugin handling "sub".
Registry ==
  << [name |-> "search", multi |-> FALSE, handles |-> {}, updates |-> FALSE],
     [name |-> "crawl", multi |-> FALSE, handles |-> {}, updates |-> TRUE],
     [name |-> "suite", multi |-> TRUE, handles |-> {"sub"}, updates |-> FALSE] >>

\* No plugin, and no operation on the registry yet.
NoPlugin == [name |-> "", multi |-> FALSE, handles |-> {}, updates |-> FALSE]

NoOp == [op |-> "none", plugin |-> NoPlugin, before |-> <<>>, tool |-> "",
         args |-> "", found |-> [owner |-> 0, payload |-> <<>>]]

\* The plugins that get registered: a plain plugin named "sub", two
\* instances of the multi-tool plugin "suite" (one handles "sub"), and the
\* multi-tool plugin "kit" handling "sub" and "aux".
PluginUniverse ==
  { [name |-> "sub", multi |-> FALSE, handles |-> {}, updates |-> FALSE],
    [name |-> "suite", multi |-> TRUE, handles |-> {"sub"}, updates |-> FALSE],
    [name |-> "suite", multi |-> TRUE, handles |-> {}, updates |-> FALSE],
    [name |-> "kit", multi |-> TRUE, handles |-> {"sub", "aux"},
     updates |-> FALSE] }

\* The tool names and args callTool is asked to resolve.
ToolNames == {"sub", "suite", "aux", "ghost"}
ArgValues == {"cats", "dogs"}

\* The tool choices of the options: none given, a policy ('auto', 'none',
\* 'required'), or a named tool.
ToolChoices == {"absent", "auto", "tool"}

\* buildPayload has not been applied.
Unbuilt ==
  [engine |-> "", vision |-> FALSE, role |-> "", atts |-> <<>>,
   payload |-> [state |-> "none"]]

\* The engines: LlmEngine with its own methods, and the Ollama provider,
\* which overrides requiresFlatTextPayload and addImageToPayload.
Engines == {"base", "ollama"}

Roles == {"system", "assistant", "user"}

\* Attachments: text or image (isText, isImage), with their content; the
\* content "null" is a content that is not loaded (null or undefined).
Attachment(k, c) == [kind |-> k, content |-> c]

Attachments ==
  { Attachment("text", "a"), Attachment("text", "b"),
    Attachment("image", "i"), Attachment("text", "null") }

\* A text is the list of the pieces joined by "\n\n"; the message's
\* contentForModel is the one piece "msg".
TextPart(t) == [type |-> "text", text |-> t, url |-> ""]
ImagePart(c) == [type |-> "image_url", text |-> <<>>, url |-> c]

\* LLmCompletionPayload: the content is a string (one text) or an array of
\* parts; images is the Ollama provider's list of images.
StringPayload(t) ==
  [state |-> "built", array |-> FALSE, parts |-> <<TextPart(t)>>,
   images |-> <<>>]
ArrayPayload(ps) ==
  [state |-> "built", array |-> TRUE, parts |-> ps, images |-> <<>>]

\* processToolExecutionResult has not been applied.
Unprocessed ==
  [name |-> "", params |-> "", update |-> NoUpdate,
   result |-> [kind |-> "none", content |-> "undefined", canceled |-> FALSE,
               error |-> NoError]]

\* Native chunks of the Ollama transport (ChatResponse).
NativeToolCall(n) == [name |-> n, arguments |-> "cats"]

NativeChunk(d, c, tcs, ec) ==
  [done |-> d, content |-> c, thinking |-> "", tool_calls |-> tcs,
   eval_count |-> ec, prompt_eval_count |-> ec]

NoChunk == NativeChunk(FALSE, "", <<>>, 0)

TextChunk == NativeChunk(FALSE, "txt", <<>>, 0)
DoneChunk == NativeChunk(TRUE, "", <<>>, 1)
ThinkChunks ==
  {NativeChunk(FALSE, "<think>", <<>>, 0), NativeChunk(FALSE, "</think>", <<>>, 0)}
CallChunk(tcs) == NativeChunk(FALSE, "", tcs, 0)

\* The native chunks of the stream-level specification: the chunk that
\* closes a model turn (content, done, usage counts) and tool-call chunks.
StreamChunks ==
  { DoneChunk,
    CallChunk(<<NativeToolCall("search")>>),
    CallChunk(<<NativeToolCall("crawl")>>) }

\* The native chunks of the tool-level specification.
ToolChunks ==
  { TextChunk, DoneChunk,
    CallChunk(<<NativeToolCall("search")>>),
    CallChunk(<<NativeToolCall("crawl")>>),
    CallChunk(<<NativeToolCall("sub")>>),
    CallChunk(<<NativeToolCall("ghost")>>),
    CallChunk(<<NativeToolCall("search"), NativeToolCall("sub")>>) }
  \cup ThinkChunks

\* Uniform chunks (LlmChunk).
ContentChunk(t, txt, d) ==
  [type |-> t, id |-> -1, name |-> "", state |-> "", done |-> d,
   result |-> "undefined", text |-> txt]

UsageChunk(u) ==
  [type |-> "usage", id |-> -1, name |-> "", state |-> "", done |-> FALSE,
   result |-> "undefined", text |-> "", usage |-> u]

\* Variant: every tool chunk is yielded with done = false.
ToolChunkNotDone(i, n, s, d, r) ==
  [type |-> "tool", id |-> i, name |-> n, state |-> s, done |-> FALSE,
   result |-> r, text |-> ""]

ToolChunk(i, n, s, d, r) ==
  [type |-> "tool", id |-> i, name |-> n, state |-> s, done |-> d,
   result |-> r, text |-> ""]

ToolAbortChunk(e) ==
  [type |-> "tool_abort", id |-> -1, name |-> e.name, state |-> "",
   done |-> FALSE, result |-> "undefined", text |-> "", reason |-> e.reason]

\* JSON.stringify / JSON.parse of the tool arguments and of the tool result.
Stringify(v) == <<"json", v>>
Parse(s) == s[2]

----------------------------------------------------------------------------
\* Pure helpers of the engine

\* generate: a done content chunk is not forwarded as done while a stream
\* switch is pending (nextStream !== null).
\* Variant: the done flag is forwarded as received.
NoSuppressDone(msg, nextStream) == msg

SuppressDone(msg, nextStream) ==
  IF nextStream # 0 /\ msg.type = "content" /\ msg.done
  THEN [msg EXCEPT !.done = FALSE]
  ELSE msg

\* Variant: abort is called twice, whether or not a controller is there.
AbortTwice(ss, s, r, ctl) ==
  [ss EXCEPT ![s].controller = IF ctl THEN "present" ELSE "absent",
             ![s].aborts = @ \o <<r, r>>]

\* generate: currentStream.controller?.abort(opts?.abortSignal?.reason);
\* ctl tells whether the stream carries a controller (LlmStream.controller
\* is optional), which is read here and nowhere else.
AbortOn(ss, s, r, ctl) ==
  IF ctl
  THEN [ss EXCEPT ![s].controller = "present", ![s].aborts = Append(@, r)]
  ELSE [ss EXCEPT ![s].controller = "absent"]

NewStream ==
  [controller |-> "unread", consumed |-> 0, ended |-> FALSE, aborts |-> <<>>,
   choice |-> "absent"]

\* doStream: the stream requested while context.opts holds the tool choice tc.
StreamWith(tc) == [NewStream EXCEPT !.choice = tc]

\* Variant: the tool choice is left as it is.
KeepChoice(tc) == tc

\* nativeChunkToLlmChunk: a tool choice naming a tool is deleted from the
\* options once the tool calls of the chunk are done.
ClearForcedChoice(tc) == IF tc = "tool" THEN "absent" ELSE tc

Consume(ss, s) == [ss EXCEPT ![s].consumed = @ + 1]

\* Variant: a replacement already recorded is kept, the new one is dropped.
KeepFirstSwitch(c, n, s) == [cur |-> c, nxt |-> IF n = 0 THEN s ELSE n]

\* Variant: the replacement stream becomes current at once.
SwitchAtOnce(c, n, s) == [cur |-> s, nxt |-> 0]

\* generate: a stream-switch chunk is remembered in nextStream; the current
\* stream stays current.
RecordSwitch(c, n, s) == [cur |-> c, nxt |-> s]

\* Variant: generate returns after the tool_abort chunk.
CatchResumeStops == "done"

\* generate: where the loop goes on once the consumer has taken the
\* tool_abort chunk yielded by the catch block: the next native chunk.
CatchResume == "fetch"

\* Variant: an abort decision is returned as a canceled call, as deny is.
ProcessAbortAsDeny(toolName, params, lu) ==
  LET content == IF Falsy(lu.result) THEN "ErrNoResult" ELSE lu.result
  IN IF lu.type = "none"
     THEN [kind |-> "throw", content |-> "undefined", canceled |-> FALSE,
           error |-> [type |-> "error", name |-> toolName, params |-> params,
                      reason |-> "did not return any result"]]
     ELSE [kind |-> "return", content |-> content,
           canceled |-> (lu.canceled \/ lu.validation \in {"deny", "abort"}),
           error |-> NoError]

\* Variant: a deny decision raises the tool-abort failure too.
ProcessDenyAsAbort(toolName, params, lu) ==
  LET content == IF Falsy(lu.result) THEN "ErrNoResult" ELSE lu.result
  IN IF lu.validation \in {"abort", "deny"}
     THEN [kind |-> "throw", content |-> content, canceled |-> FALSE,
           error |-> [type |-> "tool_abort", name |-> toolName,
                      params |-> params, reason |-> lu.validation]]
     ELSE [kind |-> "return", content |-> content, canceled |-> lu.canceled,
           error |-> NoError]

\* processToolExecutionResult
ProcessToolExecutionResult(toolName, params, lu) ==
  LET content == IF Falsy(lu.result) THEN "ErrNoResult" ELSE lu.result
  IN IF lu.type = "none"
     THEN [kind |-> "throw", content |-> "undefined", canceled |-> FALSE,
           error |-> [type |-> "error", name |-> toolName, params |-> params,
                      reason |-> "did not return any result"]]
     ELSE IF lu.validation = "abort"
     THEN [kind |-> "throw", content |-> content, canceled |-> FALSE,
           error |-> [type |-> "tool_abort", name |-> toolName,
                      params |-> params, reason |-> lu.validation]]
     ELSE [kind |-> "return", content |-> content,
           canceled |-> (lu.canceled \/ lu.validation = "deny"),
           error |-> NoError]

\* Variant: a multi-tool plugin handling the name is preferred.
ResolveMultiFirst(ps, tool, args) ==
  LET ByName == {i \in 1..Len(ps) : ps[i].name = tool}
      Handling == {i \in 1..Len(ps) : ps[i].multi /\ tool \in ps[i].handles}
      Min(S) == CHOOSE i \in S : \A j \in S : i <= j
  IN IF Handling # {}
     THEN [owner |-> Min(Handling),
           payload |-> <<"tool", tool, "parameters", args>>]
     ELSE IF ByName # {}
     THEN [owner |-> Min(ByName), payload |-> <<"args", args>>]
     ELSE [owner |-> 0, payload |-> <<"args", args>>]

\* callTool: the owner of a tool name and the payload it is run with: the
\* first plugin of that name, else the first multi-tool plugin handling it.
ResolveOwner(ps, tool, args) ==
  LET ByName == {i \in 1..Len(ps) : ps[i].name = tool}
      Handling == {i \in 1..Len(ps) : ps[i].multi /\ tool \in ps[i].handles}
      Min(S) == CHOOSE i \in S : \A j \in S : i <= j
  IN IF ByName # {} THEN [owner |-> Min(ByName), payload |-> <<"args", args>>]
     ELSE IF Handling # {}
     THEN [owner |-> Min(Handling),
           payload |-> <<"tool", tool, "parameters", args>>]
     ELSE [owner |-> 0, payload |-> <<"args", args>>]

\* requiresFlatTextPayload: of LlmEngine, and the Ollama provider's override.
RequiresFlatTextPayload(e, role) ==
  IF e = "ollama" THEN TRUE ELSE role \in {"system", "assistant"}

\* Variant: a text attachment always becomes a new part of an array.
AddTextAsPart(e, role, att, p) ==
  IF p.array
  THEN [p EXCEPT !.parts = Append(@, TextPart(<<att.content>>))]
  ELSE [p EXCEPT !.parts[1].text = Append(@, att.content)]

\* addTextToPayload
AddTextToPayload(e, role, att, p) ==
  LET T == {i \in DOMAIN p.parts : p.parts[i].type = "text"}
      first == CHOOSE i \in T : \A j \in T : i <= j
  IN IF p.array
     THEN IF RequiresFlatTextPayload(e, role) /\ T # {}
          THEN [p EXCEPT !.parts[first].text = Append(@, att.content)]
          ELSE [p EXCEPT !.parts = Append(@, TextPart(<<att.content>>))]
     ELSE [p EXCEPT !.parts[1].text = Append(@, att.content)]

\* addImageToPayload: of LlmEngine (a string content becomes an array, the
\* image is pushed), and the Ollama provider's override (images).
AddImageToPayload(e, att, p) ==
  IF e = "ollama"
  THEN [p EXCEPT !.images = Append(@, att.content)]
  ELSE [p EXCEPT !.array = TRUE,
                 !.parts = Append(@, ImagePart(att.content))]

\* Variant: an image is added whatever the model's capabilities are.
ImageGoesInAlways(att, vision) == att.kind = "image"

\* buildPayload: attachment.isImage() && model.capabilities.vision
ImageGoesIn(att, vision) == att.kind = "image" /\ vision

\* buildPayload, the loop over the attachments of one message.
RECURSIVE AddAttachments(_, _, _, _, _)
AddAttachments(e, vision, role, atts, p) ==
  IF atts = <<>> THEN p
  ELSE LET att == Head(atts)
           p1 == IF att.kind = "text"
                 THEN AddTextToPayload(e, role, att, p)
                 ELSE p
           p2 == IF ImageGoesIn(att, vision)
                 THEN AddImageToPayload(e, att, p1)
                 ELSE p1
       IN AddAttachments(e, vision, role, Tail(atts),
                         IF att.content = "null" THEN p ELSE p2)

\* buildPayload, for one message of the thread.
BuildPayload(e, vision, role, atts) ==
  AddAttachments(e, vision, role, atts,
                 IF RequiresFlatTextPayload(e, role)
                 THEN StringPayload(<<"msg">>)
                 ELSE ArrayPayload(<<TextPart(<<"msg">>)>>))

\* Variant: the plugin is pushed, plugins of its name are not filtered out.
PushPlugin(ps, p) == Append(ps, p)

\* addPlugin: plugins of the same name are filtered out, the plugin is
\* pushed at the end.
FilterAndPush(ps, p) ==
  Append(SelectSeq(ps, LAMBDA q : q.name # p.name), p)

\* Variant: ids counted from one.
ToolCallIdFromOne(tcs) == Len(tcs) + 1

\* nativeChunkToLlmChunk: the id given to a tool call, and its record.
ToolCallId(tcs) == Len(tcs)

MkToolCall(tcs, tc) ==
  [id |-> ToolCallId(tcs), message |-> tc, function |-> tc.name,
   args |-> Stringify(IF tc.arguments = "absent" THEN "" ELSE tc.arguments)]

\* nativeChunkToLlmChunk: usage accumulation on a done chunk.
AddUsage(u, c) ==
  IF c.done /\ (c.eval_count # 0 \/ c.prompt_eval_count # 0)
  THEN [prompt_tokens |-> u.prompt_tokens + c.prompt_eval_count,
        completion_tokens |-> u.completion_tokens + c.eval_count]
  ELSE u

\* nativeChunkToLlmChunk: the chunks of a native chunk without tool calls.
ContentMsgs(c, th, u, uopt) ==
  (IF c.thinking # "" THEN <<ContentChunk("reasoning", c.thinking, c.done)>>
   ELSE <<>>)
  \o (IF c.content # "" \/ c.done
      THEN <<ContentChunk(IF th THEN "reasoning" ELSE "content", c.content, c.done)>>
      ELSE <<>>)
  \o (IF uopt /\ c.done THEN <<UsageChunk(u)>> ELSE <<>>)

\* The messages a tool call folds into the thread.
AssistantMessage(c) ==
  [role |-> "assistant", content |-> Stringify(""), tool_calls |-> c.tool_calls]

ToolMessage(content) ==
  [role |-> "tool", content |-> Stringify(content), tool_calls |-> <<>>]

UserMessage ==
  [role |-> "user", content |-> Stringify("hi"), tool_calls |-> <<>>]

\* Variant: the two messages take the place of the last entry.
FoldOverLast(th, c, content) ==
  SubSeq(th, 1, Len(th) - 1) \o <<AssistantMessage(c), ToolMessage(content)>>

\* Variant: the two messages are put in front of the thread.
FoldInFront(th, c, content) ==
  <<AssistantMessage(c), ToolMessage(content)>> \o th

\* A tool call and its result are folded into the thread: the assistant
\* message of the response, then the tool message.
Fold(th, c, content) ==
  th \o <<AssistantMessage(c), ToolMessage(content)>>

----------------------------------------------------------------------------
\* Initial state: the engine is constructed with the plugins ps registered;
\* neither generate nor chat has been called.

StartWith(ps, pr, tc, b) ==
  /\ plugins = ps
  /\ processed = pr
  /\ toolChoice = tc
  /\ built = b
  /\ lastOp = NoOp
  /\ mode = "none"
  /\ pev = <<>>
  /\ hasValidator \in BOOLEAN
  /\ usageOpt = TRUE
  /\ aborted = FALSE
  /\ reason = "none"
  /\ pc = "idle"
  /\ npc = ""
  /\ streams = <<>>
  /\ cur = 0
  /\ nxt = 0
  /\ thread = <<>>
  /\ toolCalls = <<>>
  /\ thinking = FALSE
  /\ usage = [prompt_tokens |-> 0, completion_tokens |-> 0]
  /\ chunk = NoChunk
  /\ ti = 0
  /\ lastUpdate = NoUpdate
  /\ validation = "none"
  /\ nupd = 0
  /\ pend = <<>>
  /\ out = <<>>
  /\ err = NoError
  /\ recv = <<>>
  /\ obs = -1
  /\ calls = <<>>

\* The same, called without a tool choice.
Start(ps, pr) == StartWith(ps, pr, "absent", Unbuilt)

\* The plugins of the test setup are registered and nothing has run.
Init == Start(Registry, Unprocessed)

opts == <<plugins, hasValidator, usageOpt>>
probes == <<lastOp, processed, built>>
signal == <<aborted, reason>>

----------------------------------------------------------------------------
\* Control fragments: what generate does with what the normalizer hands it.

\* generate: `yield msg` (after the done suppression); generate is then
\* suspended until the consumer asks for the next chunk.
Fwd(msg, k, n, c) ==
  /\ out' = Append(out, [chunk |-> SuppressDone(msg, nxt), stream |-> cur,
                         n |-> n, call |-> c, sig |-> aborted,
                         rawDone |-> msg.done])
  /\ pc' = "yield"
  /\ npc' = k
  /\ err' = err

Goto(p) ==
  /\ pc' = p
  /\ npc' = ""
  /\ out' = out
  /\ err' = err

\* Variant: the normalizer goes on after the tool_abort chunk.
ThrownContinues(e) ==
  Fwd(ToolAbortChunk(e), "afterTerminal", Len(recv), Len(calls))

\* generate: the catch block around the normalizer.
Thrown(e) ==
  IF e.type = "tool_abort"
  THEN Fwd(ToolAbortChunk(e), "afterToolAbort", Len(recv), Len(calls))
  ELSE /\ pc' = "failed"
       /\ npc' = ""
       /\ out' = out
       /\ err' = e

\* Variant: the catch block rethrows whatever the signal is.
CaughtRethrows(e) == Thrown(e)

\* nativeChunkToLlmChunk: the catch block around one tool call.
Caught(e) ==
  LET t == toolCalls[Len(toolCalls)]
  IN IF aborted
     THEN Fwd(ToolChunk(t.id, t.function, "canceled", TRUE, "undefined"),
              "afterCatch", Len(recv), Len(calls))
     ELSE Thrown(e)

\* nativeChunkToLlmChunk: callTool has ended with lastUpdate lu; the result
\* is processed and the terminal tool chunk is yielded.
Finish(lu) ==
  LET t == toolCalls[Len(toolCalls)]
      r == ProcessToolExecutionResult(t.function, Parse(t.args), lu)
  IN /\ lastUpdate' = lu
     /\ IF r.kind = "throw"
        THEN Caught(r.error)
        ELSE Fwd(ToolChunk(t.id, t.function,
                           IF r.canceled THEN "canceled" ELSE "completed",
                           TRUE, r.content),
                 "afterTerminal", Len(recv), Len(calls))

\* nativeChunkToLlmChunk: a tool call of the chunk is recorded and announced.
BeginTool(tc, n, cs) ==
  LET t == MkToolCall(toolCalls, tc)
  IN /\ toolCalls' = Append(toolCalls, t)
     /\ calls' = Append(cs, [id |-> t.id, name |-> t.function, n |-> n,
                             stream |-> cur, decision |-> "none",
                             folded |-> FALSE, at |-> 0])
     /\ Fwd(ToolChunk(t.id, t.function, "preparing", FALSE, "undefined"),
            "afterPreparing", n, Len(cs) + 1)

\* callTool: the plugin is run, single-shot or with updates.
StartExec(i) ==
  /\ Goto(IF plugins[i].updates THEN "update" ELSE "execute")
  /\ lastUpdate' = NoUpdate
  /\ nupd' = 0

CurTool == toolCalls[Len(toolCalls)]

\* The tool name and the args callTool is called with: by the normalizer
\* (the recorded tool call, args parsed back) or by chat (the response's).
ToolName ==
  IF mode = "chat" THEN chunk.tool_calls[ti].name ELSE CurTool.function

ToolArgs ==
  IF mode = "chat" THEN chunk.tool_calls[ti].arguments ELSE Parse(CurTool.args)

CurOwner == ResolveOwner(plugins, ToolName, ToolArgs)

\* callTool has yielded its terminal result lu and ended: the normalizer
\* processes it at once; chat processes it after its for-await loop.
EndCall(lu) ==
  IF mode = "chat"
  THEN lastUpdate' = lu /\ Goto("chatProcess")
  ELSE Finish(lu)

\* callTool has raised e: the normalizer catches it; chat does not.
Raise(e) ==
  IF mode = "chat"
  THEN pc' = "failed" /\ npc' = "" /\ out' = out /\ err' = e
  ELSE Caught(e)

\* callTool has forwarded a status update: the normalizer yields a running
\* chunk; chat ignores it.
Status ==
  IF mode = "chat"
  THEN Goto("update")
  ELSE Fwd(ToolChunk(CurTool.id, CurTool.function, "running", FALSE,
                     "undefined"),
           "afterStatus", Len(recv), Len(calls))

----------------------------------------------------------------------------
\* Actions

\* The environment sets the abort signal.
SignalAbort(r) ==
  /\ ~aborted
  /\ pc \notin {"done", "failed", "chatCall", "chatProcess"}
  /\ aborted' = TRUE
  /\ reason' = r
  /\ UNCHANGED <<opts, toolChoice, mode, pev, probes, pc, npc, streams, cur, nxt, thread, toolCalls, thinking,
                 usage, chunk, ti, lastUpdate, validation, nupd, pend, out,
                 err, recv, obs, calls>>

\* generate is called: stream() builds the context and starts the first
\* native stream.
Generate ==
  /\ pc = "idle"
  /\ streams' = <<StreamWith(toolChoice)>>
  /\ cur' = 1
  /\ nxt' = 0
  /\ thread' = <<UserMessage>>
  /\ toolCalls' = <<>>
  /\ thinking' = FALSE
  /\ usage' = [prompt_tokens |-> 0, completion_tokens |-> 0]
  /\ mode' = "generate"
  /\ Goto("fetch")
  /\ UNCHANGED <<opts, toolChoice, pev, probes, signal, chunk, ti, lastUpdate, validation,
                 nupd, pend, recv, obs, calls>>

\* nativeChunkToLlmChunk, up to its first yield or its return.
Normalize(c) ==
  LET u == AddUsage(usage, c)
      n == Len(recv) + 1
  IN /\ usage' = u
     /\ IF Len(c.tool_calls) > 0
        THEN /\ chunk' = c
             /\ ti' = 1
             /\ BeginTool(c.tool_calls[1], n, calls)
             /\ UNCHANGED <<thinking, pend>>
        ELSE IF c.content = "<think>" \/ c.content = "</think>"
        THEN /\ thinking' = (c.content = "<think>")
             /\ Goto("fetch")
             /\ UNCHANGED <<toolCalls, chunk, ti, pend, calls>>
        ELSE LET msgs == ContentMsgs(c, thinking, u, usageOpt)
             IN /\ IF msgs = <<>>
                   THEN Goto("fetch") /\ pend' = <<>>
                   ELSE Fwd(Head(msgs), "pending", n, 0) /\ pend' = Tail(msgs)
                /\ UNCHANGED <<toolCalls, thinking, chunk, ti, calls>>

\* Variant: the chunk is normalized whatever the signal is.
ReceiveChunkUnchecked(c, max) ==
  /\ pc = "fetch"
  /\ Len(recv) < max
  /\ streams' = Consume(streams, cur)
  /\ recv' = Append(recv, [stream |-> cur, aborted |-> aborted,
                           normalized |-> TRUE, switched |-> FALSE])
  /\ Normalize(c)
  /\ UNCHANGED <<opts, toolChoice, mode, pev, probes, signal, cur, nxt, thread, lastUpdate, validation, nupd,
                 obs>>

\* generate: the current native stream delivers a chunk and the abort
\* signal is not set: the chunk is normalized.
ReceiveChunk(c, max) ==
  /\ pc = "fetch"
  /\ Len(recv) < max
  /\ ~aborted
  /\ streams' = Consume(streams, cur)
  /\ recv' = Append(recv, [stream |-> cur, aborted |-> aborted,
                           normalized |-> TRUE, switched |-> FALSE])
  /\ Normalize(c)
  /\ UNCHANGED <<opts, toolChoice, mode, pev, probes, signal, cur, nxt, thread, lastUpdate, validation, nupd,
                 obs>>

\* generate: the current native stream delivers a chunk and the abort
\* signal is set: the check before normalization ends the generation.
CancelOnReceive(ctl, max) ==
  /\ pc = "fetch"
  /\ Len(recv) < max
  /\ aborted
  /\ streams' = AbortOn(Consume(streams, cur), cur, reason, ctl)
  /\ recv' = Append(recv, [stream |-> cur, aborted |-> TRUE,
                           normalized |-> FALSE, switched |-> FALSE])
  /\ obs' = Len(out)
  /\ Goto("done")
  /\ UNCHANGED <<opts, toolChoice, mode, pev, probes, signal, cur, nxt, thread, toolCalls, thinking, usage,
                 chunk, ti, lastUpdate, validation, nupd, pend, calls>>

\* generate: the current native stream is exhausted.
StreamEnd ==
  /\ pc = "fetch"
  /\ streams' = [streams EXCEPT ![cur].ended = TRUE]
  /\ IF nxt = 0
     THEN Goto("done") /\ UNCHANGED <<cur, nxt>>
     ELSE Goto("fetch") /\ cur' = nxt /\ nxt' = 0
  /\ UNCHANGED <<opts, toolChoice, mode, pev, probes, signal, thread, toolCalls, thinking, usage, chunk, ti,
                 lastUpdate, validation, nupd, pend, recv, obs, calls>>

\* generate: the consumer asks for the next chunk and the abort signal is
\* set: the check after the yield ends the generation.
CancelAfterYield(ctl) ==
  /\ pc = "yield"
  /\ npc # "afterToolAbort"
  /\ aborted
  /\ streams' = AbortOn(streams, cur, reason, ctl)
  /\ obs' = Len(out)
  /\ Goto("done")
  /\ UNCHANGED <<opts, toolChoice, mode, pev, probes, signal, cur, nxt, thread, toolCalls, thinking, usage,
                 chunk, ti, lastUpdate, validation, nupd, pend, recv, calls>>

\* The consumer asks for the next chunk after a tool_abort chunk: the catch
\* block is left and the loop over the native stream goes on.
ResumeAfterToolAbort ==
  /\ pc = "yield"
  /\ npc = "afterToolAbort"
  /\ Goto(CatchResume)
  /\ chunk' = NoChunk
  /\ ti' = 0
  /\ UNCHANGED <<opts, toolChoice, mode, pev, probes, signal, streams, cur, nxt, thread, toolCalls, thinking,
                 usage, lastUpdate, validation, nupd, pend, recv, obs, calls>>

\* Variant: the running chunk is yielded without the check after the yield.
ResumePreparingUnchecked ==
  /\ pc = "yield"
  /\ npc = "afterPreparing"
  /\ Fwd(ToolChunk(toolCalls[Len(toolCalls)].id,
                   toolCalls[Len(toolCalls)].function, "running", FALSE,
                   "undefined"),
         "afterRunning", Len(recv), Len(calls))
  /\ UNCHANGED <<opts, toolChoice, mode, pev, probes, signal, streams, cur, nxt, thread, toolCalls, thinking,
                 usage, chunk, ti, lastUpdate, validation, nupd, pend, recv,
                 obs, calls>>

\* The normalizer resumes after the preparing chunk: the running chunk.
ResumePreparing ==
  /\ pc = "yield"
  /\ npc = "afterPreparing"
  /\ ~aborted
  /\ Fwd(ToolChunk(CurTool.id, CurTool.function, "running", FALSE, "undefined"),
         "afterRunning", Len(recv), Len(calls))
  /\ UNCHANGED <<opts, toolChoice, mode, pev, probes, signal, streams, cur, nxt, thread, toolCalls, thinking,
                 usage, chunk, ti, lastUpdate, validation, nupd, pend, recv,
                 obs, calls>>

\* Variant: no cancellation check before the validation and the plugin.
CallToolUnchecked ==
  /\ validation' = "none"
  /\ pev' = <<>>
  /\ IF CurOwner.owner = 0
     THEN EndCall(ResultUpdate("ErrNotFound", FALSE, "none")) /\ nupd' = 0
     ELSE IF hasValidator
     THEN Goto("validate") /\ lastUpdate' = NoUpdate /\ nupd' = 0
     ELSE StartExec(CurOwner.owner)

\* Variant: the cancellation check comes before the owner is looked up.
CallToolCancelFirst ==
  /\ validation' = "none"
  /\ pev' = <<>>
  /\ IF aborted
     THEN EndCall(ResultUpdate("ErrCancelled", TRUE, "none")) /\ nupd' = 0
     ELSE IF CurOwner.owner = 0
     THEN EndCall(ResultUpdate("ErrNotFound", FALSE, "none")) /\ nupd' = 0
     ELSE IF hasValidator
     THEN Goto("validate") /\ lastUpdate' = NoUpdate /\ nupd' = 0
     ELSE StartExec(CurOwner.owner)

\* callTool, from its call to its first await: owner resolution, the
\* cancellation check, and the call of the validation callback or of the
\* plugin.
CallTool ==
  /\ validation' = "none"
  /\ pev' = <<>>
  /\ IF CurOwner.owner = 0
     THEN EndCall(ResultUpdate("ErrNotFound", FALSE, "none")) /\ nupd' = 0
     ELSE IF aborted
     THEN EndCall(ResultUpdate("ErrCancelled", TRUE, "none")) /\ nupd' = 0
     ELSE IF hasValidator
     THEN Goto("validate") /\ lastUpdate' = NoUpdate /\ nupd' = 0
     ELSE StartExec(CurOwner.owner)

\* The normalizer resumes after the running chunk: callTool is entered and
\* runs to its first await.
ResumeRunning ==
  /\ pc = "yield"
  /\ npc = "afterRunning"
  /\ ~aborted
  /\ CallTool
  /\ UNCHANGED <<opts, toolChoice, mode, probes, signal, streams, cur, nxt, thread,
                 toolCalls, thinking, usage, chunk, ti, pend, recv, obs, calls>>

\* Variant: the plugin is run whatever the validation callback answers.
ValidateIgnored(d) ==
  /\ pc = "validate"
  /\ validation' = d
  /\ calls' = [calls EXCEPT ![Len(calls)].decision = d]
  /\ StartExec(ResolveOwner(plugins, ToolName, ToolArgs).owner)
  /\ UNCHANGED <<opts, toolChoice, mode, probes, signal, streams, cur, nxt, thread,
                 toolCalls, thinking, usage, chunk, ti, pev, pend, recv, obs>>

\* callTool: the validation callback answers.
Validate(d) ==
  /\ pc = "validate"
  /\ validation' = d
  /\ calls' = [calls EXCEPT ![Len(calls)].decision = d]
  /\ IF d # "allow"
     THEN EndCall(ResultUpdate("ErrDenied", FALSE, d)) /\ nupd' = nupd
     ELSE StartExec(CurOwner.owner)
  /\ UNCHANGED <<opts, toolChoice, mode, probes, signal, streams, cur, nxt, thread,
                 toolCalls, thinking, usage, chunk, ti, pev, pend, recv, obs>>

\* callTool: the single-shot plugin returns.
ExecuteReturns(r) ==
  /\ pc = "execute"
  /\ pev' = Append(pev, PluginEvent("return", r, aborted))
  /\ EndCall(ResultUpdate(r, FALSE, validation))
  /\ UNCHANGED <<opts, toolChoice, mode, probes, signal, streams, cur, nxt, thread,
                 toolCalls, thinking, usage, chunk, ti, validation, nupd, pend, recv, obs, calls>>

\* Variant: only a failure under a set signal is turned into a cancellation.
ExecuteThrowsSignalOnly(e) ==
  /\ pc = "execute"
  /\ pev' = Append(pev, PluginEvent("throw", e, aborted))
  /\ IF aborted
     THEN EndCall(ResultUpdate("ErrCancelled", TRUE, validation))
     ELSE /\ lastUpdate' = lastUpdate
          /\ Raise([type |-> "error", name |-> ToolName,
                    params |-> ToolArgs, reason |-> e])
  /\ UNCHANGED <<opts, toolChoice, mode, probes, signal, streams, cur, nxt, thread,
                 toolCalls, thinking, usage, chunk, ti, validation, nupd, pend, recv, obs, calls>>

\* callTool: the single-shot plugin fails.
ExecuteThrows(e) ==
  /\ pc = "execute"
  /\ pev' = Append(pev, PluginEvent("throw", e, aborted))
  /\ IF aborted \/ e = "Operation cancelled"
     THEN EndCall(ResultUpdate("ErrCancelled", TRUE, validation))
     ELSE /\ lastUpdate' = lastUpdate
          /\ Raise([type |-> "error", name |-> ToolName,
                    params |-> ToolArgs, reason |-> e])
  /\ UNCHANGED <<opts, toolChoice, mode, probes, signal, streams, cur, nxt, thread,
                 toolCalls, thinking, usage, chunk, ti, validation, nupd, pend, recv, obs, calls>>

\* Variant: a status update is forwarded without looking at the signal.
PluginStatusUnchecked ==
  /\ pc = "update"
  /\ lastUpdate.type = "none"
  /\ nupd < MaxUpdates
  /\ nupd' = nupd + 1
  /\ pev' = Append(pev, PluginEvent("status", "", aborted))
  /\ lastUpdate' = lastUpdate
  /\ Status
  /\ UNCHANGED <<opts, toolChoice, mode, probes, signal, streams, cur, nxt, thread,
                 toolCalls, thinking, usage, chunk, ti, validation, pend, recv, obs, calls>>

\* callTool: the progressive plugin delivers a status update.
PluginStatus ==
  /\ pc = "update"
  /\ lastUpdate.type = "none"
  /\ nupd < MaxUpdates
  /\ nupd' = nupd + 1
  /\ pev' = Append(pev, PluginEvent("status", "", aborted))
  /\ IF aborted
     THEN EndCall(ResultUpdate("ErrCancelled", TRUE, validation))
     ELSE /\ lastUpdate' = lastUpdate
          /\ Status
  /\ UNCHANGED <<opts, toolChoice, mode, probes, signal, streams, cur, nxt, thread,
                 toolCalls, thinking, usage, chunk, ti, validation, pend, recv, obs, calls>>

\* callTool: the progressive plugin delivers its result update.
PluginResult(r) ==
  /\ pc = "update"
  /\ lastUpdate.type = "none"
  /\ pev' = Append(pev, PluginEvent("result", r, aborted))
  /\ IF aborted
     THEN EndCall(ResultUpdate("ErrCancelled", TRUE, validation))
     ELSE /\ lastUpdate' = ResultUpdate(r, FALSE, "none")
          /\ Goto("update")
  /\ UNCHANGED <<opts, toolChoice, mode, probes, signal, streams, cur, nxt, thread,
                 toolCalls, thinking, usage, chunk, ti, validation, nupd, pend, recv, obs, calls>>

\* callTool: the progressive plugin has no more updates.
UpdatesEnd ==
  /\ pc = "update"
  /\ lastUpdate.type = "result"
  /\ pev' = Append(pev, PluginEvent("end", "", aborted))
  /\ EndCall(lastUpdate)
  /\ UNCHANGED <<opts, toolChoice, mode, probes, signal, streams, cur, nxt, thread,
                 toolCalls, thinking, usage, chunk, ti, validation, nupd, pend, recv, obs, calls>>

\* callTool: the progressive plugin ends without having delivered a result.
UpdatesEndEmpty ==
  /\ pc = "update"
  /\ lastUpdate.type = "none"
  /\ pev' = Append(pev, PluginEvent("end", "", aborted))
  /\ EndCall(lastUpdate)
  /\ UNCHANGED <<opts, toolChoice, mode, probes, signal, streams, cur, nxt, thread,
                 toolCalls, thinking, usage, chunk, ti, validation, nupd, pend, recv, obs, calls>>

\* The normalizer resumes after a running chunk of a status update.
ResumeStatus ==
  /\ pc = "yield"
  /\ npc = "afterStatus"
  /\ ~aborted
  /\ Goto("update")
  /\ UNCHANGED <<opts, toolChoice, mode, pev, probes, signal, streams, cur, nxt, thread, toolCalls, thinking,
                 usage, chunk, ti, lastUpdate, validation, nupd, pend, recv,
                 obs, calls>>

\* The normalizer resumes after the terminal tool chunk: the tool call and
\* its result are folded into the thread; then the next tool call of the
\* chunk, or the new stream is requested (doStream resets the context).
ResumeTerminal ==
  /\ pc = "yield"
  /\ npc = "afterTerminal"
  /\ ~aborted
  /\ LET r == ProcessToolExecutionResult(CurTool.function, Parse(CurTool.args),
                                         lastUpdate)
         cs == [calls EXCEPT ![Len(calls)].folded = TRUE,
                             ![Len(calls)].at = Len(thread)]
     IN /\ thread' = Fold(thread, chunk, r.content)
        /\ IF ti < Len(chunk.tool_calls)
           THEN /\ ti' = ti + 1
                /\ BeginTool(chunk.tool_calls[ti + 1], Len(recv), cs)
                /\ UNCHANGED <<thinking, toolChoice>>
           ELSE /\ calls' = cs
                /\ toolCalls' = <<>>
                /\ thinking' = FALSE
                /\ toolChoice' = ClearForcedChoice(toolChoice)
                /\ Goto("doStream")
                /\ UNCHANGED ti
  /\ UNCHANGED <<opts, mode, pev, probes, signal, streams, cur, nxt, usage, chunk, lastUpdate,
                 validation, nupd, pend, recv, obs>>

\* doStream returns the new native stream; the normalizer yields the
\* stream-switch chunk and generate records it; the abort signal is not
\* set and the normalizer returns.
DoStreamReturns ==
  /\ pc = "doStream"
  /\ ~aborted
  /\ LET ss == Append(streams, StreamWith(toolChoice))
         sw == RecordSwitch(cur, nxt, Len(ss))
     IN /\ cur' = sw.cur
        /\ nxt' = sw.nxt
        /\ streams' = ss
  /\ recv' = [recv EXCEPT ![Len(recv)].switched = TRUE]
  /\ Goto("fetch")
  /\ chunk' = NoChunk
  /\ ti' = 0
  /\ UNCHANGED <<opts, toolChoice, mode, pev, probes, signal, thread, toolCalls, thinking, usage, lastUpdate,
                 validation, nupd, pend, obs, calls>>

\* The same with the abort signal set: the check after the stream-switch
\* chunk ends the generation.
CancelAfterSwitch(ctl) ==
  /\ pc = "doStream"
  /\ aborted
  /\ LET ss == Append(streams, StreamWith(toolChoice))
         sw == RecordSwitch(cur, nxt, Len(ss))
     IN /\ cur' = sw.cur
        /\ nxt' = sw.nxt
        /\ streams' = AbortOn(ss, cur, reason, ctl)
  /\ recv' = [recv EXCEPT ![Len(recv)].switched = TRUE]
  /\ obs' = Len(out)
  /\ Goto("done")
  /\ UNCHANGED <<opts, toolChoice, mode, pev, probes, signal, thread, toolCalls, thinking, usage, chunk, ti,
                 lastUpdate, validation, nupd, pend, calls>>

\* The normalizer resumes after a chunk of a native chunk without tool calls.
ResumePending ==
  /\ pc = "yield"
  /\ npc = "pending"
  /\ ~aborted
  /\ IF pend = <<>>
     THEN Goto("fetch") /\ pend' = pend
     ELSE Fwd(Head(pend), "pending", Len(recv), 0) /\ pend' = Tail(pend)
  /\ UNCHANGED <<opts, toolChoice, mode, pev, probes, signal, streams, cur, nxt, thread, toolCalls, thinking,
                 usage, chunk, ti, lastUpdate, validation, nupd, recv, obs,
                 calls>>

\* complete is called: the payload is built and chat awaits the model's
\* response (a ChatResponse, as the native chunks of a stream are).
Complete ==
  /\ pc = "idle"
  /\ mode' = "chat"
  /\ thread' = <<UserMessage>>
  /\ Goto("chat")
  /\ UNCHANGED <<opts, toolChoice, pev, probes, signal, streams, cur, nxt, toolCalls,
                 thinking, usage, chunk, ti, lastUpdate, validation, nupd,
                 pend, recv, obs, calls>>

\* chat: the model responds; with tool calls the first one is taken up,
\* without, chat returns the text response.
ChatResponds(c, max) ==
  /\ pc = "chat"
  /\ Len(recv) < max
  /\ recv' = Append(recv, [stream |-> 0, aborted |-> aborted,
                           normalized |-> TRUE, switched |-> FALSE])
  /\ chunk' = c
  /\ IF Len(c.tool_calls) > 0
     THEN ti' = 1 /\ Goto("chatCall")
     ELSE ti' = 0 /\ Goto("done")
  /\ UNCHANGED <<opts, toolChoice, mode, pev, probes, signal, streams, cur, nxt, thread,
                 toolCalls, thinking, usage, lastUpdate, validation, nupd,
                 pend, obs, calls>>

\* chat: callTool is called for the tool call at hand and runs to its first
\* await.
ChatCallTool ==
  /\ pc = "chatCall"
  /\ calls' = Append(calls, [id |-> -1, name |-> ToolName, n |-> Len(recv),
                             stream |-> 0, decision |-> "none",
                             folded |-> FALSE, at |-> 0])
  /\ CallTool
  /\ UNCHANGED <<opts, toolChoice, mode, probes, signal, streams, cur, nxt, thread,
                 toolCalls, thinking, usage, chunk, ti, pend, recv, obs>>

\* Variant: the messages are pushed before the canceled flag is looked at.
ChatProcessPushFirst ==
  /\ pc = "chatProcess"
  /\ LET r == ProcessToolExecutionResult(ToolName, ToolArgs, lastUpdate)
         stop(e) == /\ pc' = "failed"
                    /\ npc' = ""
                    /\ out' = out
                    /\ err' = e
                    /\ UNCHANGED <<ti, calls>>
     IN IF r.kind = "throw"
        THEN stop(r.error) /\ thread' = thread
        ELSE IF r.canceled
        THEN /\ stop([type |-> "error", name |-> ToolName,
                      params |-> ToolArgs,
                      reason |-> "Tool execution was canceled"])
             /\ thread' = Fold(thread, chunk, r.content)
        ELSE /\ thread' = Fold(thread, chunk, r.content)
             /\ calls' = [calls EXCEPT ![Len(calls)].folded = TRUE,
                                       ![Len(calls)].at = Len(thread)]
             /\ IF ti < Len(chunk.tool_calls)
                THEN ti' = ti + 1 /\ Goto("chatCall")
                ELSE ti' = ti /\ Goto("chat")
  /\ UNCHANGED <<opts, toolChoice, mode, pev, probes, signal, streams, cur, nxt, toolCalls,
                 thinking, usage, chunk, lastUpdate, validation, nupd, pend,
                 recv, obs>>

\* chat: the last result update of callTool is processed; a canceled call
\* makes chat throw, otherwise the call and its result are pushed onto the
\* thread and chat goes on to the next tool call or prompts the model again.
ChatProcess ==
  /\ pc = "chatProcess"
  /\ LET r == ProcessToolExecutionResult(ToolName, ToolArgs, lastUpdate)
         stop(e) == /\ pc' = "failed"
                    /\ npc' = ""
                    /\ out' = out
                    /\ err' = e
                    /\ UNCHANGED <<thread, ti, calls>>
     IN IF r.kind = "throw"
        THEN stop(r.error)
        ELSE IF r.canceled
        THEN stop([type |-> "error", name |-> ToolName, params |-> ToolArgs,
                   reason |-> "Tool execution was canceled"])
        ELSE /\ thread' = Fold(thread, chunk, r.content)
             /\ calls' = [calls EXCEPT ![Len(calls)].folded = TRUE,
                                       ![Len(calls)].at = Len(thread)]
             /\ IF ti < Len(chunk.tool_calls)
                THEN ti' = ti + 1 /\ Goto("chatCall")
                ELSE ti' = ti /\ Goto("chat")
  /\ UNCHANGED <<opts, toolChoice, mode, pev, probes, signal, streams, cur, nxt, toolCalls,
                 thinking, usage, chunk, lastUpdate, validation, nupd, pend,
                 recv, obs>>

\* What generate does, whatever the inputs are.
Engine ==
  \/ \E r \in Reasons : SignalAbort(r)
  \/ Generate
  \/ StreamEnd
  \/ \E ctl \in BOOLEAN : CancelAfterYield(ctl)
  \/ ResumeAfterToolAbort
  \/ ResumePreparing
  \/ ResumeRunning
  \/ \E d \in Decisions : Validate(d)
  \/ PluginStatus
  \/ UpdatesEnd
  \/ ResumeStatus
  \/ ResumeTerminal
  \/ DoStreamReturns
  \/ \E ctl \in BOOLEAN : CancelAfterSwitch(ctl)
  \/ ResumePending

\* Stream-level specification: up to MaxChunks native chunks; plugins
\* return a result or fail.
Next ==
  \/ Engine
  \/ \E c \in StreamChunks : ReceiveChunk(c, MaxChunks)
  \/ \E ctl \in BOOLEAN : CancelOnReceive(ctl, MaxChunks)
  \/ ExecuteReturns("hits")
  \/ ExecuteThrows("plugin failure")
  \/ PluginResult("hits")

Spec == Init /\ [][Next]_vars

\* Tool-level specification: generate or chat, up to MaxToolChunks native
\* chunks or responses; every outcome of a plugin execution.
NextTools ==
  \/ Engine
  \/ Complete
  \/ \E c \in ToolChunks : ChatResponds(c, MaxToolChunks)
  \/ ChatCallTool
  \/ ChatProcess
  \/ \E c \in ToolChunks : ReceiveChunk(c, MaxToolChunks)
  \/ \E ctl \in BOOLEAN : CancelOnReceive(ctl, MaxToolChunks)
  \/ \E r \in ExecResults : ExecuteReturns(r)
  \/ \E e \in ExecErrors : ExecuteThrows(e)
  \/ \E r \in ExecResults : PluginResult(r)
  \/ UpdatesEndEmpty

SpecTools == Init /\ [][NextTools]_vars

\* Generations that run to their end: up to MaxRunChunks native chunks; the
\* consumer keeps asking for chunks, a native stream delivers a chunk or
\* ends, the validation callback and the plugins answer.
NextRun ==
  \/ Engine
  \/ \E c \in StreamChunks : ReceiveChunk(c, MaxRunChunks)
  \/ \E ctl \in BOOLEAN : CancelOnReceive(ctl, MaxRunChunks)
  \/ ExecuteReturns("hits")
  \/ ExecuteThrows("plugin failure")
  \/ PluginResult("hits")

SpecRun == Init /\ [][NextRun]_vars /\ WF_vars(NextRun)

\* The same, called with any tool choice.
InitChoice ==
  \E tc \in ToolChoices : StartWith(Registry, Unprocessed, tc, Unbuilt)

SpecChoice == InitChoice /\ [][NextTools]_vars

----------------------------------------------------------------------------
\* processToolExecutionResult on its own

\* The terminal updates it is applied to: none, or a result update with
\* any result, canceled flag and validation decision.
AllUpdates ==
  {NoUpdate} \cup
  { ResultUpdate(r, c, v) :
      r \in ExecResults \cup {"ErrDenied", "ErrCancelled"},
      c \in BOOLEAN, v \in Decisions \cup {"none"} }

\* The calls of processToolExecutionResult that are made.
ProcessCalls ==
  { [Unprocessed EXCEPT !.name = n, !.params = a, !.update = u] :
      n \in {"search", "sub"}, a \in {"cats", "dogs"}, u \in AllUpdates }

Process ==
  /\ processed.result.kind = "none"
  /\ processed' =
       [processed EXCEPT !.result =
          ProcessToolExecutionResult(processed.name, processed.params,
                                     processed.update)]
  /\ UNCHANGED <<opts, toolChoice, built, lastOp, signal, mode, pev, pc, npc,
                 streams, cur, nxt, thread, toolCalls, thinking, usage, chunk, ti, lastUpdate,
                 validation, nupd, pend, out, err, recv, obs, calls>>

InitProcess == \E pr \in ProcessCalls : Start(Registry, pr)

NextProcess == Process

SpecProcess == InitProcess /\ [][NextProcess]_vars

----------------------------------------------------------------------------
\* buildPayload on its own

\* The calls of buildPayload that are made: engine, vision capability of
\* the model, role of the message, up to MaxAtts attachments.
PayloadCalls ==
  { [Unbuilt EXCEPT !.engine = e, !.vision = v, !.role = r, !.atts = a] :
      e \in Engines, v \in BOOLEAN, r \in Roles,
      a \in UNION {[1..n -> Attachments] : n \in 0..MaxAtts} }

Build ==
  /\ built.payload.state = "none"
  /\ built' = [built EXCEPT !.payload =
                 BuildPayload(built.engine, built.vision, built.role,
                              built.atts)]
  /\ UNCHANGED <<opts, toolChoice, lastOp, processed, signal, mode, pev, pc,
                 npc, streams, cur, nxt, thread, toolCalls, thinking, usage,
                 chunk, ti, lastUpdate, validation, nupd, pend, out, err,
                 recv, obs, calls>>

InitPayload ==
  \E b \in PayloadCalls : StartWith(Registry, Unprocessed, "absent", b)

NextPayload == Build

SpecPayload == InitPayload /\ [][NextPayload]_vars

----------------------------------------------------------------------------
\* The plugin registry

\* Everything but the registry and the record of the last operation on it.
engine == <<hasValidator, usageOpt, processed, toolChoice, built, signal, mode, pev, pc, npc,
            streams, cur, nxt, thread, toolCalls, thinking, usage, chunk, ti,
            lastUpdate, validation, nupd, pend, out, err, recv, obs, calls>>

\* addPlugin
AddPlugin(p) ==
  /\ plugins' = FilterAndPush(plugins, p)
  /\ lastOp' = [NoOp EXCEPT !.op = "add", !.plugin = p, !.before = plugins]
  /\ UNCHANGED engine

\* clearPlugins
ClearPlugins ==
  /\ plugins' = <<>>
  /\ lastOp' = [NoOp EXCEPT !.op = "clear", !.before = plugins]
  /\ UNCHANGED engine

\* callTool, its first part: the owner of the tool and the payload.
ResolveTool(t, a) ==
  /\ lastOp' = [NoOp EXCEPT !.op = "resolve", !.tool = t, !.args = a,
                            !.found = ResolveOwner(plugins, t, a)]
  /\ UNCHANGED <<plugins, engine>>

\* The engine as constructed: no plugin is registered.
InitRegistry == Start(<<>>, Unprocessed)

NextRegistry ==
  \/ \E p \in PluginUniverse : AddPlugin(p)
  \/ ClearPlugins
  \/ \E t \in ToolNames, a \in ArgValues : ResolveTool(t, a)

SpecRegistry == InitRegistry /\ [][NextRegistry]_vars

----------------------------------------------------------------------------
\* Vocabulary of the properties

\* The forwarded chunks that belong to tool call k.
IdxOf(k) == {i \in DOMAIN out : out[i].call = k}

First(I) == CHOOSE i \in I : \A j \in I : i <= j
Last(I) == CHOOSE i \in I : \A j \in I : j <= i

\* A stream switch was recorded on the native stream of forwarded chunk i
\* before the native chunk it derives from.
SwitchedBefore(i) ==
  \E m \in 1..(out[i].n - 1) :
    recv[m].stream = out[i].stream /\ recv[m].switched

\* The native chunk before chunk n after which the context was reset by
\* doStream (0: none).
LastSwitch(n) ==
  LET S == {m \in 1..(n - 1) : recv[m].switched}
  IN IF S = {} THEN 0 ELSE Last(S)

\* The number of tool calls recorded in context.toolCalls when call k is.
RecordedBefore(k) ==
  Cardinality({j \in 1..(k - 1) : calls[j].n > LastSwitch(calls[k].n)})

\* Tool call k is the only call of its native chunk, its tool is registered,
\* it was not denied or aborted, and its plugin returned a result.
SoleCall(k) == \A j \in DOMAIN calls : calls[j].n = calls[k].n => j = k

AllowedWithResult(k) ==
  /\ calls[k].decision \in {"allow", "none"}
  /\ SoleCall(k)
  /\ ResolveOwner(plugins, calls[k].name, "cats").owner # 0
  /\ \E i \in IdxOf(k) : out[i].chunk.done /\ out[i].chunk.result = "hits"

\* The tool chunks of call k are preparing, running (one or more) and
\* completed, all with id n.
ToolSequence(k, n) ==
  LET I == IdxOf(k)
      f == First(I)
      l == Last(I)
  IN /\ Cardinality(I) >= 3
     /\ \A i \in I :
          /\ out[i].chunk.type = "tool"
          /\ out[i].chunk.id = n
          /\ out[i].chunk.name = calls[k].name
          /\ out[i].chunk.state = IF i = f THEN "preparing"
                                  ELSE IF i = l THEN "completed"
                                  ELSE "running"
          /\ out[i].chunk.done = (i = l)

\* Tool call k and its result are in the thread, and the stream switch has
\* been requested and recorded (or the consumer has not yet asked for the
\* chunk after the terminal tool chunk, or doStream has not yet returned).
FoldedAndSwitched(k) ==
  \/ k = Len(calls) /\ pc = "yield" /\ npc = "afterTerminal"
  \/ /\ calls[k].folded
     /\ Len(thread) >= calls[k].at + 2
     /\ thread[calls[k].at + 1] =
          AssistantMessage(CallChunk(<<NativeToolCall(calls[k].name)>>))
     /\ thread[calls[k].at + 2] = ToolMessage("hits")
     /\ \/ k = Len(calls) /\ pc = "doStream"
        \/ /\ recv[calls[k].n].switched
           /\ (nxt > calls[k].stream \/ cur > calls[k].stream)

----------------------------------------------------------------------------
\* Properties

\* C1: a content chunk forwarded after a stream switch was recorded on its
\* native stream is never forwarded with done = true; a content chunk
\* forwarded before any switch on its native stream keeps the done flag the
\* normalizer gave it.
C1_NoDoneAfterSwitch ==
  \A i \in DOMAIN out :
    out[i].chunk.type = "content" =>
      IF SwitchedBefore(i) THEN ~out[i].chunk.done
      ELSE out[i].chunk.done = out[i].rawDone

\* A done content chunk arrived after a switch and was forwarded not done.
C1_Witness ==
  \E i \in DOMAIN out :
    /\ out[i].chunk.type = "content"
    /\ out[i].rawDone
    /\ SwitchedBefore(i)
    /\ ~out[i].chunk.done

\* C2 (as stated): whenever a validation answers abort, a tool_abort chunk
\* is forwarded for the call, and generate does not stop: unless the abort
\* signal is set later, it ends only when the current stream is exhausted.
C2_AbortAlwaysToolAbort ==
  /\ \A k \in DOMAIN calls :
       calls[k].decision = "abort" =>
         \E i \in IdxOf(k) : out[i].chunk.type = "tool_abort"
  /\ (pc = "done" /\ ~aborted) => streams[cur].ended

\* C2 (amended): when a validation answers abort and the abort signal is not
\* set, a tool_abort chunk carrying the tool name and the reason is
\* forwarded (with the abort signal set, a canceled tool chunk is forwarded
\* instead); the tool_abort chunk does not end generate, which ends only on
\* an observed cancellation or when the current stream is exhausted with no
\* replacement pending; chunks are forwarded in the order of the native
\* chunks they derive from.
C2_ToolAbortGoesOn ==
  /\ \A k \in DOMAIN calls :
       calls[k].decision = "abort" =>
         LET e == out[Last(IdxOf(k))]
         IN IF e.sig
            THEN e.chunk.type = "tool" /\ e.chunk.state = "canceled"
            ELSE /\ e.chunk.type = "tool_abort"
                 /\ e.chunk.name = calls[k].name
                 /\ e.chunk.reason = "abort"
  /\ pc = "done" => obs >= 0 \/ (streams[cur].ended /\ nxt = 0)
  /\ \A i \in 1..(Len(out) - 1) : out[i].n <= out[i + 1].n

\* A chunk derived from a later native chunk was forwarded after a
\* tool_abort chunk.
C2_Witness ==
  \E i, j \in DOMAIN out :
    /\ i < j
    /\ out[i].chunk.type = "tool_abort"
    /\ out[j].n > out[i].n

\* C3 (as stated): a tool_abort chunk is the last chunk forwarded, and no
\* native chunk is received after the one it derives from.
C3_ToolAbortTerminates ==
  \A i \in DOMAIN out :
    out[i].chunk.type = "tool_abort" =>
      i = Len(out) /\ Len(recv) = out[i].n

\* C3 (amended): a tool_abort chunk ends the normalization of its native
\* chunk only: no later chunk derives from that native chunk, no further
\* tool call of it is recorded, the aborted call is not folded into the
\* thread and no stream switch is recorded for it.
C3_ToolAbortEndsChunkOnly ==
  \A i \in DOMAIN out :
    out[i].chunk.type = "tool_abort" =>
      /\ \A j \in DOMAIN out : j > i => out[j].n > out[i].n
      /\ \A k \in DOMAIN calls : k > out[i].call => calls[k].n > out[i].n
      /\ ~calls[out[i].call].folded
      /\ ~recv[out[i].n].switched

\* After a tool_abort chunk a further native chunk was received and
\* normalized, and generate ended with the stream exhausted.
C3_Witness ==
  \E i \in DOMAIN out :
    /\ out[i].chunk.type = "tool_abort"
    /\ Len(recv) > out[i].n
    /\ recv[Len(recv)].normalized
    /\ pc = "done"
    /\ obs < 0

\* C4 (as stated): while the abort signal is not set, a denied tool call is
\* not folded into the thread and no stream switch is recorded for its
\* native chunk.
C4_DenyLeavesThread ==
  ~aborted =>
    \A k \in DOMAIN calls :
      calls[k].decision = "deny" =>
        /\ ~calls[k].folded
        /\ ~recv[calls[k].n].switched

\* C5: a tool_abort chunk is forwarded only for a call whose validation
\* answered abort; a denied call has exactly one terminal chunk, a tool
\* chunk in state canceled, which is the last chunk of the call.
C5_DenyNoToolAbort ==
  /\ \A i \in DOMAIN out :
       out[i].chunk.type = "tool_abort" =>
         calls[out[i].call].decision = "abort"
  /\ \A k \in DOMAIN calls :
       calls[k].decision = "deny" =>
         LET T == {i \in IdxOf(k) : out[i].chunk.done}
         IN /\ T = {Last(IdxOf(k))}
            /\ \A i \in IdxOf(k) : out[i].chunk.type = "tool"
            /\ out[Last(IdxOf(k))].chunk.state = "canceled"

\* A denied call has its canceled chunk forwarded and generate goes on.
C5_Witness ==
  \E k \in DOMAIN calls :
    /\ calls[k].decision = "deny"
    /\ out[Last(IdxOf(k))].chunk.state = "canceled"
    /\ ~aborted
    /\ Len(recv) > calls[k].n

\* C6: a native chunk received with the abort signal set is not normalized
\* and nothing is forwarded for it; once generate has forwarded a chunk and
\* the abort signal is set, generate forwards nothing more and changes
\* neither the thread nor the recorded tool calls; when cancellation is
\* observed generate ends without an error and forwards nothing after.
C6_CancellationChecks ==
  /\ [](/\ \A m \in DOMAIN recv :
             recv[m].aborted =>
               /\ ~recv[m].normalized
               /\ \A i \in DOMAIN out : out[i].n # m
               /\ m = Len(recv)
               /\ pc = "done"
        /\ obs >= 0 =>
             /\ aborted
             /\ pc = "done"
             /\ Len(out) = obs
             /\ err = NoError)
  /\ [][(aborted /\ pc \in {"yield", "fetch"}) =>
          /\ out' = out
          /\ thread' = thread
          /\ toolCalls' = toolCalls
          /\ pc' \in {pc, "fetch", "done"}]_vars

\* Cancellation was observed after a forwarded chunk, in the middle of the
\* normalization of a native chunk with a tool call.
C6_Witness ==
  /\ pc = "done"
  /\ obs > 0
  /\ chunk # NoChunk
  /\ ~recv[Len(recv)].aborted

\* C7 (as stated): when cancellation is observed, abort has been called
\* exactly once, with the signal's reason, on the current stream.
C7_AbortExactlyOnce ==
  obs >= 0 => streams[cur].aborts = <<reason>>

\* C7 (amended): abort is never called before cancellation is observed, nor
\* on a stream other than the current one; when cancellation is observed it
\* has been called exactly once with the signal's reason if the current
\* stream carries a controller, and not at all if it carries none.
C7_AbortOnceIfController ==
  /\ \A s \in DOMAIN streams :
       (s # cur \/ obs < 0) =>
         streams[s].aborts = <<>> /\ streams[s].controller = "unread"
  /\ obs >= 0 =>
       /\ streams[cur].controller \in {"present", "absent"}
       /\ streams[cur].controller = "present" =>
            streams[cur].aborts = <<reason>>
       /\ streams[cur].controller = "absent" => streams[cur].aborts = <<>>

\* Cancellation was observed on a stream with a controller, after a switch
\* to a replacement stream.
C7_Witness ==
  /\ obs >= 0
  /\ cur > 1
  /\ streams[cur].aborts = <<reason>>

\* C8: chunks are forwarded and native chunks received in the order of
\* their streams; a stream that is no longer current was consumed to its
\* end (or never consumed), and no stream after the current one has been
\* consumed.
C8_OldStreamDrained ==
  /\ \A i \in 1..(Len(out) - 1) : out[i].stream <= out[i + 1].stream
  /\ \A m \in 1..(Len(recv) - 1) : recv[m].stream <= recv[m + 1].stream
  /\ \A s \in DOMAIN streams :
       /\ s < cur => streams[s].ended \/ streams[s].consumed = 0
       /\ s > cur => streams[s].consumed = 0

\* A chunk of the old stream was forwarded after the switch was recorded,
\* and a chunk of the replacement after it.
C8_Witness ==
  \E i, j \in DOMAIN out :
    /\ i < j
    /\ SwitchedBefore(i)
    /\ out[j].stream > out[i].stream

\* C9 (as stated): while the abort signal is not set, a sole call to a
\* registered tool that is allowed and returns a result has its tool chunks
\* preparing, running, completed with id 0, is folded into the thread with
\* its serialized result, and is followed by a stream switch.
C9_ScenarioIdZero ==
  ~aborted =>
    \A k \in DOMAIN calls :
      AllowedWithResult(k) => ToolSequence(k, 0) /\ FoldedAndSwitched(k)

\* C9 (amended): the same, with the id being the number of tool calls
\* recorded in the context since the current stream was requested: 0 unless
\* an earlier call on the same stream ended with a tool_abort.
C9_ScenarioIdCount ==
  ~aborted =>
    \A k \in DOMAIN calls :
      AllowedWithResult(k) =>
        ToolSequence(k, RecordedBefore(k)) /\ FoldedAndSwitched(k)

\* An allowed call with a result got id 1 after an aborted one, and
\* generate went on to the replacement stream.
C9_Witness ==
  \E k \in DOMAIN calls :
    /\ ~aborted
    /\ AllowedWithResult(k)
    /\ calls[k].id = 1
    /\ cur > calls[k].stream

\* C10 (as stated): no two tool calls recorded during one generation have
\* the same id.
C10_UniqueIds ==
  \A j, k \in DOMAIN calls : j # k => calls[j].id # calls[k].id

\* Tool call k has ended: its terminal tool chunk or its tool_abort chunk was
\* forwarded (generate), or it was folded into the thread (chat).
Ended(k) ==
  \/ calls[k].folded
  \/ \E i \in IdxOf(k) : out[i].chunk.done \/ out[i].chunk.type = "tool_abort"

\* C11: the tool calls of a native chunk run one after another: only the
\* last recorded call can be unfinished; the first chunk of a call comes
\* after the terminal chunk of the call before it; the calls folded into the
\* thread are folded in the order of the calls, each as the assistant
\* message followed by the tool message with the result of its terminal
\* chunk.
C11_ToolCallsSequential ==
  /\ \A k \in 1..(Len(calls) - 1) :
       /\ Ended(k)
       /\ (mode = "generate" /\ calls[k].n = calls[k + 1].n) =>
            /\ out[Last(IdxOf(k))].chunk.done
            /\ First(IdxOf(k + 1)) > Last(IdxOf(k))
            /\ (calls[k + 1].folded => calls[k].folded)
            /\ calls[k + 1].folded => calls[k].at + 2 <= calls[k + 1].at
  /\ \A k \in DOMAIN calls :
       (mode = "generate" /\ calls[k].folded) =>
         /\ Len(thread) >= calls[k].at + 2
         /\ thread[calls[k].at + 1].role = "assistant"
         /\ thread[calls[k].at + 2] =
              ToolMessage(out[Last(IdxOf(k))].chunk.result)

\* Two calls of one native chunk were both folded into the thread, with
\* different results.
C11_Witness ==
  \E k \in 1..(Len(calls) - 1) :
    /\ mode = "generate"
    /\ calls[k].n = calls[k + 1].n
    /\ calls[k].folded
    /\ calls[k + 1].folded
    /\ thread[calls[k].at + 2] # thread[calls[k + 1].at + 2]

\* C12: with a validation callback, the plugin runs only after the callback
\* has answered allow; when the callback answers deny or abort, the result
\* callTool ends with is the denial error carrying the validation response,
\* and the plugin has not been invoked.
C12_ValidationBeforePlugin ==
  hasValidator =>
    /\ (pev # <<>> \/ pc \in {"execute", "update"}) => validation = "allow"
    /\ validation \in {"deny", "abort"} =>
         /\ pev = <<>>
         /\ pc \notin {"validate", "execute", "update"}
         /\ lastUpdate = ResultUpdate("ErrDenied", FALSE, validation)
         /\ \E k \in DOMAIN calls : calls[k].decision = validation

\* The callback denied a call to the progressive plugin: the denial is the
\* result and the plugin delivered nothing.
C12_Witness ==
  /\ validation = "deny"
  /\ calls # <<>>
  /\ calls[Len(calls)].name = "crawl"
  /\ calls[Len(calls)].decision = "deny"
  /\ lastUpdate.result = "ErrDenied"
  /\ lastUpdate.validation = "deny"
  /\ pev = <<>>

\* C13: when callTool is called with the abort signal set for a tool that
\* resolves to a plugin, it ends at once with the canceled result: the
\* validation callback is not asked and the plugin is not run.
C13_CanceledBeforeExecution ==
  [][(pc = "chatCall" /\ aborted /\ CurOwner.owner # 0) =>
       /\ lastUpdate' = ResultUpdate("ErrCancelled", TRUE, "none")
       /\ pc' = "chatProcess"
       /\ validation' = "none"
       /\ pev' = <<>>]_vars

\* chat called callTool with the abort signal set and a validation
\* callback supplied: the canceled result came back without a decision.
C13_Witness ==
  /\ mode = "chat"
  /\ pc = "chatProcess"
  /\ hasValidator
  /\ validation = "none"
  /\ pev = <<>>
  /\ lastUpdate = ResultUpdate("ErrCancelled", TRUE, "none")

\* No registered plugin has the name t and no multi-tool plugin handles t.
Unowned(t) ==
  \A i \in DOMAIN plugins :
    plugins[i].name # t /\ ~(plugins[i].multi /\ t \in plugins[i].handles)

\* callTool is being entered: by chat, or by the normalizer resuming after
\* the running chunk.
EnteringCallTool ==
  \/ pc = "chatCall"
  \/ pc = "yield" /\ npc = "afterRunning" /\ ~aborted /\ npc' # npc

\* C14: callTool for a tool that no plugin owns or handles ends at once with
\* the not-found error as its only result and raises nothing; the
\* validation callback is not asked and no plugin is run, whether or not
\* the abort signal is set.
C14_ToolNotFound ==
  [][(EnteringCallTool /\ Unowned(ToolName)) =>
       /\ lastUpdate' = ResultUpdate("ErrNotFound", FALSE, "none")
       /\ validation' = "none"
       /\ pev' = <<>>
       /\ err' = NoError
       /\ pc' \in {"chatProcess", "yield"}
       /\ mode = "generate" =>
            /\ Len(out') = Len(out) + 1
            /\ out'[Len(out')].chunk =
                 ToolChunk(CurTool.id, "ghost", "completed", TRUE,
                           "ErrNotFound")]_vars

\* chat called callTool for an unknown tool with the abort signal set and a
\* validation callback supplied: the not-found result came back.
C14_Witness ==
  /\ mode = "chat"
  /\ aborted
  /\ hasValidator
  /\ pc = "chatProcess"
  /\ calls[Len(calls)].name = "ghost"
  /\ lastUpdate = ResultUpdate("ErrNotFound", FALSE, "none")

\* An update of the progressive plugin arrives in this step.
UpdateArrives ==
  /\ pc = "update"
  /\ Len(pev') = Len(pev) + 1
  /\ pev'[Len(pev')].kind \in {"status", "result"}

\* The plugin event i is an update that arrived with the signal set.
ArrivedAborted(i) == pev[i].kind \in {"status", "result"} /\ pev[i].sig

\* C15: when an update of a progressive plugin arrives with the abort
\* signal set, callTool ends with one canceled result (carrying the
\* validation response when a validator ran) and nothing more of the plugin
\* is taken; with the signal not set a status update is forwarded (as a
\* running chunk by the normalizer) and the result update becomes the
\* terminal update, in the order of arrival.
C15_ProgressiveCancellation ==
  /\ [](\A i \in DOMAIN pev :
          ArrivedAborted(i) => i = Len(pev) /\ pc # "update")
  /\ [][UpdateArrives =>
          IF aborted
          THEN /\ lastUpdate' = ResultUpdate("ErrCancelled", TRUE, validation)
               /\ hasValidator => lastUpdate'.validation = "allow"
               /\ pc' \in {"chatProcess", "yield"}
               /\ mode = "generate" =>
                    /\ Len(out') = Len(out) + 1
                    /\ out'[Len(out')].chunk.state = "canceled"
                    /\ out'[Len(out')].chunk.done
          ELSE IF pev'[Len(pev')].kind = "status"
          THEN /\ lastUpdate' = lastUpdate
               /\ IF mode = "generate"
                  THEN /\ Len(out') = Len(out) + 1
                       /\ out'[Len(out')].chunk.state = "running"
                       /\ out'[Len(out')].call = Len(calls)
                       /\ pc' = "yield"
                  ELSE pc' = "update" /\ out' = out
          ELSE /\ lastUpdate' =
                    ResultUpdate(pev'[Len(pev')].val, FALSE, "none")
               /\ \A i \in DOMAIN pev : pev[i].kind = "status"
               /\ pc' = "update"
               /\ out' = out]_vars

\* A status update arrived with the signal set after the validator allowed
\* the call: the canceled result carries the validation response.
C15_Witness ==
  /\ hasValidator
  /\ pev # <<>>
  /\ pev[Len(pev)] = PluginEvent("status", "", TRUE)
  /\ lastUpdate = ResultUpdate("ErrCancelled", TRUE, "allow")
  /\ calls[Len(calls)].name = "crawl"

\* execute of the single-shot plugin fails in this step.
ExecuteFails ==
  /\ pc = "execute"
  /\ Len(pev') = Len(pev) + 1
  /\ pev'[Len(pev')].kind = "throw"

\* C16: when execute of a single-shot plugin fails with the abort signal
\* set, or fails with the message 'Operation cancelled', callTool ends with
\* a canceled result and raises nothing; any other failure leaves callTool
\* as an error, with no result and no tool chunk.
C16_SingleShotFailure ==
  [][ExecuteFails =>
       IF aborted \/ pev'[Len(pev')].val = "Operation cancelled"
       THEN /\ lastUpdate' = ResultUpdate("ErrCancelled", TRUE, validation)
            /\ err' = NoError
            /\ pc' \in {"chatProcess", "yield"}
            /\ mode = "generate" =>
                 /\ Len(out') = Len(out) + 1
                 /\ out'[Len(out')].chunk.state = "canceled"
       ELSE /\ lastUpdate' = NoUpdate
            /\ out' = out
            /\ pc' = "failed"
            /\ err'.type = "error"
            /\ err'.reason = pev'[Len(pev')].val]_vars

\* execute failed with the cancellation message while the signal was not
\* set: the call ended with a canceled result, nothing was raised.
C16_Witness ==
  /\ pev = <<PluginEvent("throw", "Operation cancelled", FALSE)>>
  /\ lastUpdate.canceled
  /\ lastUpdate.result = "ErrCancelled"
  /\ err = NoError
  /\ calls[Len(calls)].name = "search"

\* C17: processToolExecutionResult raises an error for a missing update,
\* raises the tool-abort failure (tool name, args, validation response) for
\* the decision 'abort', returns canceled = true for the decision 'deny' or
\* a canceled update and canceled = false for any other; the content it
\* returns is the update's result, or the fallback error payload when the
\* update has no result.
C17_Classification ==
  processed.result.kind # "none" =>
    LET u == processed.update
        r == processed.result
    IN IF u.type = "none"
       THEN r.kind = "throw" /\ r.error.type = "error"
       ELSE IF u.validation = "abort"
       THEN /\ r.kind = "throw"
            /\ r.error = [type |-> "tool_abort", name |-> processed.name,
                          params |-> processed.params,
                          reason |-> u.validation]
       ELSE /\ r.kind = "return"
            /\ r.error = NoError
            /\ r.canceled = (u.canceled \/ u.validation = "deny")
            /\ r.content =
                 IF u.result = "absent" THEN "ErrNoResult" ELSE u.result

\* The tool call chat has just run was denied by the validator or ended
\* with a canceled result.
ChatCanceled ==
  /\ pc = "chatProcess"
  /\ lastUpdate.type = "result"
  /\ lastUpdate.validation = "deny" \/ lastUpdate.canceled

\* C18: in chat a tool call that was denied or canceled makes chat fail
\* with the error 'Tool execution was canceled'; nothing is pushed onto the
\* thread for it, and after the failure no tool call is run and the model
\* is not prompted again.
C18_ChatCanceledThrows ==
  /\ [][ChatCanceled =>
          /\ pc' = "failed"
          /\ err'.type = "error"
          /\ err'.reason = "Tool execution was canceled"
          /\ thread' = thread
          /\ calls' = calls
          /\ ~calls[Len(calls)].folded]_vars
  /\ [][(mode = "chat" /\ pc = "failed") =>
          /\ pc' = "failed"
          /\ thread' = thread
          /\ calls' = calls
          /\ recv' = recv
          /\ pev' = pev]_vars

\* The second tool call of a response was denied after the first one had
\* been pushed onto the thread: chat failed and the thread holds the prompt
\* and the first call only.
C18_Witness ==
  /\ mode = "chat"
  /\ pc = "failed"
  /\ err.reason = "Tool execution was canceled"
  /\ Len(calls) = 2
  /\ calls[1].folded
  /\ ~calls[2].folded
  /\ calls[2].decision = "deny"
  /\ ti = 2
  /\ Len(thread) = 3

\* The plugins of the list ps whose name is not n, in order.
OtherNames(ps, n) == SelectSeq(ps, LAMBDA q : q.name # n)

\* C19: the registry never holds two plugins of one name; after addPlugin
\* the added plugin is the only one of its name and the plugins of other
\* names are all still there, in their order; after clearPlugins the
\* registry is empty.
C19_RegistryByName ==
  /\ \A i, j \in DOMAIN plugins :
       plugins[i].name = plugins[j].name => i = j
  /\ lastOp.op = "add" =>
       /\ plugins # <<>>
       /\ plugins[Len(plugins)] = lastOp.plugin
       /\ Cardinality({i \in DOMAIN plugins :
                         plugins[i].name = lastOp.plugin.name}) = 1
       /\ OtherNames(plugins, lastOp.plugin.name) =
            OtherNames(lastOp.before, lastOp.plugin.name)
  /\ lastOp.op = "clear" => plugins = <<>>

\* A plugin was added while another instance of its name and two plugins of
\* other names were registered: the other instance is gone, the two stay.
C19_Witness ==
  /\ lastOp.op = "add"
  /\ Len(lastOp.before) = 3
  /\ Len(plugins) = 3
  /\ \E i \in DOMAIN lastOp.before :
       /\ lastOp.before[i].name = lastOp.plugin.name
       /\ lastOp.before[i] # lastOp.plugin
       /\ i < 3

\* The multi-tool plugins of the registry that handle the tool t.
Handlers(t) ==
  {i \in DOMAIN plugins : plugins[i].multi /\ t \in plugins[i].handles}

\* C20: callTool takes the plugin whose name is the tool name whenever
\* there is one, and runs it with the args as they are; when there is none
\* it takes the first registered multi-tool plugin that handles the name,
\* and runs it with the payload {tool, parameters: args}; else no owner.
C20_ResolutionOrder ==
  lastOp.op = "resolve" =>
    LET t == lastOp.tool
        o == lastOp.found.owner
    IN IF \E i \in DOMAIN plugins : plugins[i].name = t
       THEN /\ o \in DOMAIN plugins
            /\ plugins[o].name = t
            /\ lastOp.found.payload = <<"args", lastOp.args>>
       ELSE IF Handlers(t) # {}
       THEN /\ o \in Handlers(t)
            /\ \A j \in Handlers(t) : o <= j
            /\ lastOp.found.payload =
                 <<"tool", t, "parameters", lastOp.args>>
       ELSE o = 0

\* The tool "sub" was resolved while a multi-tool plugin handling "sub" was
\* registered ahead of the plugin named "sub": the plugin named "sub" owns it.
C20_Witness ==
  /\ lastOp.op = "resolve"
  /\ lastOp.tool = "sub"
  /\ lastOp.found.owner \in DOMAIN plugins
  /\ plugins[lastOp.found.owner].name = "sub"
  /\ \E j \in Handlers("sub") : j < lastOp.found.owner
  /\ lastOp.found.payload = <<"args", lastOp.args>>

\* The thread th2 is the thread th1 with entries added at its end.
Extends(th2, th1) ==
  /\ Len(th2) >= Len(th1)
  /\ SubSeq(th2, 1, Len(th1)) = th1

\* C21: during a generation every step leaves the thread as it is or adds
\* entries at its end, so that the thread of a state extends the thread of
\* every earlier state; entries are added only when the normalizer resumes
\* after a terminal tool chunk, and they are the assistant tool-call
\* message and the tool message of that call's result.
C21_ThreadAppendOnly ==
  [][mode = "generate" =>
       \/ thread' = thread
       \/ /\ pc = "yield"
          /\ npc = "afterTerminal"
          /\ Extends(thread', thread)
          /\ Len(thread') = Len(thread) + 2
          /\ thread'[Len(thread) + 1] = AssistantMessage(chunk)
          /\ thread'[Len(thread) + 2] =
               ToolMessage(out[Len(out)].chunk.result)]_vars

\* Two tool calls of one generation have been folded in: the thread is the
\* prompt followed by two pairs of messages.
C21_Witness ==
  /\ mode = "generate"
  /\ Len(thread) = 5
  /\ thread[1] = UserMessage
  /\ thread[2].role = "assistant"
  /\ thread[3].role = "tool"
  /\ thread[4].role = "assistant"
  /\ thread[5].role = "tool"

\* In this step of a generation the tool execution fails with an error that
\* is not a tool-abort: the progressive plugin ends without a result
\* (processToolExecutionResult raises), or execute fails and callTool
\* rethrows.
NormalizationFails ==
  /\ mode = "generate"
  /\ Len(pev') = Len(pev) + 1
  /\ \/ pc = "update" /\ lastUpdate.type = "none"
          /\ pev'[Len(pev')].kind = "end"
     \/ pc = "execute" /\ ~aborted /\ pev'[Len(pev')].kind = "throw"
          /\ pev'[Len(pev')].val # "Operation cancelled"

\* Once generate has failed nothing happens any more.
FailureIsFinal ==
  (mode = "generate" /\ pc = "failed") =>
    /\ pc' = "failed"
    /\ out' = out
    /\ recv' = recv
    /\ streams' = streams

\* C22 as stated: a failure of the normalization that is not a tool-abort
\* is not turned into a chunk; generate fails with it, forwards nothing
\* after it and takes no further native chunk or stream.
C22_FailurePropagates ==
  /\ [][NormalizationFails =>
          pc' = "failed" /\ err'.type = "error" /\ out' = out]_vars
  /\ [][FailureIsFinal]_vars

\* C22, amended: so it is when the abort signal is not set at the failure;
\* when it is set, the failure is dropped, a canceled tool chunk is
\* forwarded and no error is raised.
C22_FailurePropagatesUnlessAborted ==
  /\ [][NormalizationFails =>
          IF aborted
          THEN /\ err' = NoError
               /\ pc' = "yield"
               /\ npc' = "afterCatch"
               /\ Len(out') = Len(out) + 1
               /\ out'[Len(out')].chunk =
                    ToolChunk(CurTool.id, CurTool.function, "canceled", TRUE,
                              "undefined")
          ELSE pc' = "failed" /\ err'.type = "error" /\ out' = out]_vars
  /\ [][FailureIsFinal]_vars

\* A progressive plugin ended without a result while the signal was not
\* set: generate failed with the error, after the running chunk.
C22_Witness ==
  /\ mode = "generate"
  /\ pc = "failed"
  /\ err.type = "error"
  /\ err.reason = "did not return any result"
  /\ ~aborted
  /\ out[Len(out)].chunk.state = "running"

\* The attachments of atts that have a content and are of kind k, in order.
Loaded(atts, k) ==
  SelectSeq(atts, LAMBDA a : a.kind = k /\ a.content # "null")

\* The texts of the text parts of a payload, in order.
TextsOf(p) ==
  LET tp == SelectSeq(p.parts, LAMBDA x : x.type = "text")
  IN [i \in DOMAIN tp |-> tp[i].text]

\* The texts of the loaded text attachments of built, in order.
AttachedTexts ==
  LET ta == Loaded(built.atts, "text")
  IN [i \in DOMAIN ta |-> ta[i].content]

\* One text holding the message text and every attached text, in order.
MergedInOne == TextsOf(built.payload) = <<(<<"msg">> \o AttachedTexts)>>

\* The message text, then one text part for each attached text, in order.
OnePartEach ==
  TextsOf(built.payload) =
    <<(<<"msg">>)>> \o [i \in DOMAIN AttachedTexts |-> <<AttachedTexts[i]>>]

\* C23 as stated: for the roles system and assistant the text attachments
\* are merged into the one text of the message; for any other role each
\* text attachment adds a text part of its own, in attachment order.
C23_TextAttachments ==
  built.payload.state = "built" =>
    IF built.role \in {"system", "assistant"}
    THEN MergedInOne
    ELSE OnePartEach

\* C23, amended: the roles whose text is flat are those the engine's
\* requiresFlatTextPayload names: system and assistant in LlmEngine, every
\* role in the Ollama provider.
C23_TextAttachmentsByEngine ==
  built.payload.state = "built" =>
    IF built.engine = "ollama" \/ built.role \in {"system", "assistant"}
    THEN MergedInOne
    ELSE OnePartEach

\* Two text attachments on a system message: one text with the message
\* text and both attachment texts.
C23_Witness ==
  /\ built.payload.state = "built"
  /\ built.engine = "base"
  /\ built.role = "system"
  /\ built.atts = <<Attachment("text", "a"), Attachment("text", "b")>>
  /\ TextsOf(built.payload) = << <<"msg", "a", "b">> >>

\* The images a payload holds, in order.
ImagesOf(p) ==
  LET ip == SelectSeq(p.parts, LAMBDA x : x.type = "image_url")
  IN [i \in DOMAIN ip |-> ip[i].url] \o p.images

\* C24: the images of a payload are the loaded image attachments when the
\* model has the vision capability, and none when it has not; without
\* vision the payload is the one built for the message without its image
\* attachments.
C24_VisionGating ==
  built.payload.state = "built" =>
    LET ia == Loaded(built.atts, "image")
    IN /\ ImagesOf(built.payload) =
            IF built.vision THEN [i \in DOMAIN ia |-> ia[i].content]
            ELSE <<>>
       /\ ~built.vision =>
            built.payload =
              BuildPayload(built.engine, built.vision, built.role,
                           SelectSeq(built.atts, LAMBDA a : a.kind # "image"))

\* A user message with an image and a text attachment, built for a model
\* without vision: the payload holds the two texts and no image.
C24_Witness ==
  /\ built.payload.state = "built"
  /\ ~built.vision
  /\ built.engine = "base"
  /\ built.role = "user"
  /\ built.atts = <<Attachment("image", "i"), Attachment("text", "a")>>
  /\ built.payload = ArrayPayload(<<TextPart(<<"msg">>), TextPart(<<"a">>)>>)

\* The native stream during which the replacement stream s (s > 1) was
\* recorded: the stream of the native chunk that led to the switch.
RecordedDuring(s) ==
  LET m == CHOOSE m \in DOMAIN recv :
             /\ recv[m].switched
             /\ Cardinality({j \in 1..m : recv[j].switched}) = s - 1
  IN recv[m].stream

\* The replacement s is the last one recorded during its stream.
LastRecorded(s) ==
  \A s2 \in DOMAIN streams :
    s2 > s => RecordedDuring(s2) # RecordedDuring(s)

\* generate has ended, with or without an error.
Terminated == pc \in {"done", "failed"}

\* generate has ended without an error and without a cancellation.
EndedNormally == mode = "generate" /\ pc = "done" /\ obs = -1

\* generate ends, and it ends normally only on an exhausted stream with no
\* replacement recorded; the current stream changes only when it is
\* exhausted, to the replacement recorded, which is then forgotten.
TerminatesOnExhaustion ==
  /\ <>Terminated
  /\ [](EndedNormally => nxt = 0 /\ streams[cur].ended)
  /\ [][(mode = "generate" /\ cur' # cur) =>
          /\ nxt # 0
          /\ cur' = nxt
          /\ nxt' = 0
          /\ streams'[cur].ended
          /\ streams'[cur'].consumed = 0]_vars

\* C25 as stated: generate terminates; it ends when the current stream is
\* exhausted with no replacement recorded, and every replacement recorded
\* has been consumed, once.
C25_TerminatesAllConsumed ==
  /\ TerminatesOnExhaustion
  /\ [](EndedNormally => \A s \in DOMAIN streams : streams[s].ended)

\* C25, amended: of the replacements recorded during one stream the last
\* one is consumed, once; the ones recorded before it are never consumed.
C25_TerminatesLastConsumed ==
  /\ TerminatesOnExhaustion
  /\ [](EndedNormally =>
          \A s \in DOMAIN streams :
            IF s = 1 \/ LastRecorded(s)
            THEN streams[s].ended
            ELSE ~streams[s].ended /\ streams[s].consumed = 0)

\* Two native chunks of the first stream carried a tool call: generate
\* ended normally after the second replacement, the first was never read.
C25_Witness ==
  /\ EndedNormally
  /\ Len(streams) = 3
  /\ cur = 3
  /\ streams[1].ended
  /\ streams[3].ended
  /\ ~streams[2].ended
  /\ streams[2].consumed = 0

\* C26: when the replacement stream is requested the options hold no tool
\* choice naming a tool: no stream but the first of a generation is
\* requested under a forced named tool.
C26_ForcedChoiceCleared ==
  /\ pc = "doStream" => toolChoice # "tool"
  /\ \A s \in DOMAIN streams : s > 1 => streams[s].choice # "tool"

\* generate was called with a tool choice naming a tool; after the tool
\* round the replacement stream was requested without it.
C26_Witness ==
  /\ Len(streams) >= 2
  /\ streams[1].choice = "tool"
  /\ streams[2].choice = "absent"
  /\ toolChoice = "absent"

\* The tool chunks forwarded for tool call k.
ToolIdx(k) == {i \in IdxOf(k) : out[i].chunk.type = "tool"}

\* The forwarded chunk i is a terminal tool chunk.
Terminal(i) == out[i].chunk.state \in {"completed", "canceled"}

\* No more chunk will be forwarded for tool call k.
Over(k) == k < Len(calls) \/ Terminated

\* The tool chunks of call k so far: the preparing chunk first, then running
\* chunks, then at most one terminal chunk, which comes last and not right
\* after the preparing chunk; done is set on the terminal chunk only; all
\* carry the id and the name of the call.
ToolChunksInOrder(k) ==
  LET T == ToolIdx(k)
      f == First(T)
      l == Last(T)
  IN /\ T # {}
     /\ out[f].chunk.state = "preparing"
     /\ \A i \in T :
          /\ out[i].chunk.id = calls[k].id
          /\ out[i].chunk.name = calls[k].name
          /\ out[i].chunk.done = Terminal(i)
          /\ i # f => out[i].chunk.state # "preparing"
          /\ (i # f /\ ~Terminal(i)) => out[i].chunk.state = "running"
          /\ Terminal(i) =>
               /\ i = l
               /\ \E j \in T : j < i /\ out[j].chunk.state = "running"

\* A running chunk was forwarded for call k.
HasRunning(k) == \E i \in ToolIdx(k) : out[i].chunk.state = "running"

\* C27 as stated: the tool chunks of every tool call of a generation are one
\* preparing chunk, one or more running chunks, at most one terminal chunk.
C27_ToolChunkSequence ==
  mode = "generate" =>
    \A k \in DOMAIN calls :
      /\ ToolChunksInOrder(k)
      /\ Over(k) => HasRunning(k)

\* C27, amended: no running chunk follows the preparing chunk when the
\* generation is canceled right after the preparing chunk: the call's only
\* chunk is then the preparing chunk.
C27_ToolChunkSequenceUnlessCanceled ==
  mode = "generate" =>
    \A k \in DOMAIN calls :
      /\ ToolChunksInOrder(k)
      /\ (Over(k) /\ ~HasRunning(k)) =>
           /\ k = Len(calls)
           /\ obs = Len(out)
           /\ ToolIdx(k) = {Len(out)}
           /\ pc = "done"

\* A progressive plugin was run to its result: preparing, two running
\* chunks, completed.
C27_Witness ==
  /\ mode = "generate"
  /\ Len(out) = 4
  /\ ToolIdx(1) = 1..4
  /\ out[1].chunk.state = "preparing"
  /\ out[2].chunk.state = "running"
  /\ out[3].chunk.state = "running"
  /\ out[4].chunk.state = "completed"
  /\ out[4].chunk.done

\* The chunks forwarded while the abort signal was set.
ForwardedAborted == {i \in DOMAIN out : out[i].sig}

\* C28: once the abort signal is set generate forwards at most one chunk
\* more, which is then the last chunk of the generation, and a native chunk
\* received after that is not normalized: nothing is forwarded for it and
\* it is the last one received.
C28_AtMostOneAfterAbort ==
  mode = "generate" =>
    /\ Cardinality(ForwardedAborted) <= 1
    /\ \A i \in ForwardedAborted : i = Len(out) /\ pc \in {"yield", "done"}
    /\ \A m \in DOMAIN recv :
         recv[m].aborted =>
           /\ ~recv[m].normalized
           /\ m = Len(recv)
           /\ \A i \in DOMAIN out : out[i].n # m

\* The signal was set while the plugin was running: the terminal chunk of
\* the call was still forwarded, then generate ended.
C28_Witness ==
  /\ mode = "generate"
  /\ pc = "done"
  /\ Len(out) = 3
  /\ ~out[2].sig
  /\ out[3].sig
  /\ out[3].chunk.done
  /\ out[3].chunk.type = "tool"

\* C29: when generate has observed cancellation, abort was called on the
\* controller (if it has one) of every native stream that was started and
\* is not exhausted, the recorded replacement included.
C29_EveryStreamAborted ==
  (mode = "generate" /\ obs >= 0) =>
    \A s \in DOMAIN streams :
      ~streams[s].ended => streams[s].controller # "unread"

\* Tool call k of a generation was answered abort by the validation; it was
\* not folded into the thread, no tool call of its native chunk was
\* recorded after it and no stream switch was recorded for that chunk.
AbortedCallLeavesNoTrace(k) ==
  /\ ~calls[k].folded
  /\ \A j \in DOMAIN calls : j > k => calls[j].n # calls[k].n
  /\ ~recv[calls[k].n].switched

\* C30 as stated: a tool call whose validation answers abort is not folded
\* into the thread, gets no terminal tool chunk, is the last call of its
\* native chunk that is run, and leads to no stream switch.
C30_AbortLeavesNoTrace ==
  mode = "generate" =>
    \A k \in DOMAIN calls :
      calls[k].decision = "abort" =>
        /\ AbortedCallLeavesNoTrace(k)
        /\ \A i \in ToolIdx(k) : ~Terminal(i)

\* C30, amended: when the abort signal is set as the validation answers, a
\* terminal tool chunk in state canceled, without a result, is forwarded
\* for the call and is the last chunk; with the signal not set there is no
\* terminal tool chunk.
C30_AbortLeavesNoTraceButCanceled ==
  mode = "generate" =>
    \A k \in DOMAIN calls :
      calls[k].decision = "abort" =>
        /\ AbortedCallLeavesNoTrace(k)
        /\ \A i \in ToolIdx(k) :
             Terminal(i) =>
               /\ out[i].sig
               /\ out[i].chunk.state = "canceled"
               /\ out[i].chunk.result = "undefined"
               /\ i = Len(out)

\* The first of two tool calls of a native chunk was answered abort with the
\* signal not set: the tool_abort chunk was forwarded, the thread is the
\* prompt, the second call was not recorded.
C30_Witness ==
  /\ mode = "generate"
  /\ pc = "yield"
  /\ npc = "afterToolAbort"
  /\ Len(chunk.tool_calls) = 2
  /\ Len(calls) = 1
  /\ calls[1].decision = "abort"
  /\ thread = <<UserMessage>>
  /\ Len(streams) = 1
  /\ out[Len(out)].chunk.type = "tool_abort"

====
